---- MODULE Spec2Model ----
(***************************************************************************)
(* A model of bandit's rule-set builder (bandit/core/test_set.py):         *)
(* BanditTestSet computes the active test ids from an include/exclude      *)
(* profile, dresses the blacklist singleton up as test B001, resolves the  *)
(* configuration of every test and builds the node-type dispatch table.    *)
(*                                                                         *)
(* Python values are modelled by records of one shape per kind so that     *)
(* every comparison is between values of the same kind:                    *)
(*   an optional list   [present |-> BOOLEAN, items |-> sequence]          *)
(*   a config section   [kind |-> "None" | "dict", ...]                    *)
(*   a dict             a function whose DOMAIN is the key set             *)
(*                                                                         *)
(* Further down: get_module_qualname_from_path over a small file system    *)
(* (SpecQual), the process-spawning rules of injection_shell.py run on a   *)
(* Call node (SpecShell), and get_call_name / get_qual_attr on the shapes  *)
(* of a call target (SpecNames).  Each specification leaves the variables  *)
(* of the others at their idle values.                                     *)
(***************************************************************************)
EXTENDS Integers, Sequences, FiniteSets, TLC

VARIABLES
    profile,        \* the profile dict last passed to _get_filter / BanditTestSet
    config,         \* the config object last passed to BanditTestSet
    filtering,      \* the id set last returned by _get_filter
    sets,           \* the BanditTestSet instances constructed so far
    pluginConfig,   \* the _config attribute of every registered plugin function
    blacklistAttrs, \* the attributes set on the blacklisting.blacklist singleton
    outcome,        \* how the last BanditTestSet(...) call ended
    builds,         \* number of BanditTestSet(...) calls made
    exclude2,       \* a second exclude list (the E2 of the filter law)
    filtering2,     \* _get_filter with exclude = profile's exclude + exclude2
    fdone,          \* which of the two _get_filter calls have been made
    path,           \* the argument of get_module_qualname_from_path
    cwd,            \* the working directory of the process
    markers,        \* the directories that hold an __init__.py file
    head,           \* get_module_qualname_from_path's local head
    tail,           \* get_module_qualname_from_path's local tail
    qname,          \* get_module_qualname_from_path's local qname
    qpc,            \* where the get_module_qualname_from_path call stands
    callno,         \* 1: the call on the path as given, 2: on its absolute form
    first,          \* how the call on the path as given ended
    callNode,       \* the Call node a rule of injection_shell.py is run on
    siConfig,       \* the shell_injection config the rules are given
    issues,         \* what each rule returned for the node
    func,           \* the func of the Call node given to get_call_name
    aliases,        \* the import aliases of the file
    resolved,       \* what get_call_name and get_qual_attr returned
    nsBase,         \* a namespace path: the argument of namespace_path_split
    nsName,         \* the name namespace_path_join adds to nsBase
    nsSplit,        \* what namespace_path_split(nsBase) returned
    nsRound         \* namespace_path_split(namespace_path_join(nsBase, nsName))

buildVars == <<profile, config, filtering, sets, pluginConfig, blacklistAttrs,
               outcome, builds, exclude2, filtering2, fdone>>

qualVars == <<path, cwd, markers, head, tail, qname, qpc, callno, first>>

shellVars == <<callNode, siConfig, issues>>

nameVars == <<func, aliases, resolved>>

nsVars == <<nsBase, nsName, nsSplit, nsRound>>

vars == <<buildVars, qualVars, shellVars, nameVars, nsVars>>

\* no get_module_qualname_from_path call is under way
QualIdle ==
    /\ path = [abs |-> FALSE, comps |-> <<>>, trail |-> FALSE]
    /\ cwd = <<>>
    /\ markers = {}
    /\ head = [abs |-> FALSE, comps |-> <<>>, trail |-> FALSE]
    /\ tail = ""
    /\ qname = <<>>
    /\ qpc = "idle"
    /\ callno = 0
    /\ first = [kind |-> "none", name |-> <<>>,
                path |-> [abs |-> FALSE, comps |-> <<>>, trail |-> FALSE]]

\* no rule of injection_shell.py is being run
ShellIdle ==
    /\ callNode = [name |-> "", args |-> <<>>, shell |-> "absent"]
    /\ siConfig = [kind |-> "None", subprocess |-> <<>>, shell |-> <<>>,
                   no_shell |-> <<>>]
    /\ issues = <<>>

\* no name is being resolved
NameIdle ==
    /\ func = [base |-> [type |-> "Name", id |-> ""], attrs |-> <<>>]
    /\ aliases = <<>>
    /\ resolved = <<>>

\* no namespace path is being split
NsIdle ==
    /\ nsBase = <<>>
    /\ nsName = <<>>
    /\ nsSplit = [done |-> FALSE, value |-> <<>>]
    /\ nsRound = [done |-> FALSE, value |-> <<>>]

-----------------------------------------------------------------------------
(* Bounds *)

MaxInclude == 2
MaxExclude == 1
MaxBuilds == 2

-----------------------------------------------------------------------------
(* Generic helpers *)

Range(s) == {s[i] : i \in 1..Len(s)}

SeqsUpTo(S, n) == UNION {[1..k -> S] : k \in 0..n}

NoDuplicates(s) == \A i, j \in 1..Len(s) : i # j => s[i] # s[j]

EmptyDict == [n \in {} |-> <<>>]

Absent == [present |-> FALSE, items |-> <<>>]

Listed(s) == [present |-> TRUE, items |-> s]

\* Python: x or []
OrEmptyList(opt) == IF opt.present THEN opt.items ELSE <<>>

-----------------------------------------------------------------------------
(* The rule registry, extension_loader.MANAGER *)

\* the attributes the decorators of bandit/plugins/injection_shell.py set
PluginAttrs ==
    [f \in {"subprocess_popen_with_shell_equals_true",
            "subprocess_without_shell_equals_true",
            "any_other_function_with_shell_equals_true",
            "start_process_with_a_shell",
            "start_process_with_no_shell",
            "start_process_with_partial_path"} |->
        [test_id |->
            CASE f = "subprocess_popen_with_shell_equals_true" -> "B502"
              [] f = "subprocess_without_shell_equals_true" -> "B503"
              [] f = "any_other_function_with_shell_equals_true" -> "B504"
              [] f = "start_process_with_a_shell" -> "B505"
              [] f = "start_process_with_no_shell" -> "B506"
              [] f = "start_process_with_partial_path" -> "B507",
         checks |-> <<"Call">>,
         takes_config |-> "shell_injection",
         module |-> "bandit.plugins.injection_shell"]]

\* the plugin modules that define gen_config: bandit/plugins/injection_shell.py,
\* the module of every registered plugin, defines none
ModulesWithGenConfig == {}

\* hasattr(importlib.import_module(module), 'gen_config')
ModuleHasGenConfig(module) == module \in ModulesWithGenConfig

\* extman.plugins: the registered plugins in registration order
extman_plugins ==
    << [name |-> "subprocess_popen_with_shell_equals_true",
        plugin |-> "subprocess_popen_with_shell_equals_true"],
       [name |-> "subprocess_without_shell_equals_true",
        plugin |-> "subprocess_without_shell_equals_true"],
       [name |-> "any_other_function_with_shell_equals_true",
        plugin |-> "any_other_function_with_shell_equals_true"],
       [name |-> "start_process_with_a_shell",
        plugin |-> "start_process_with_a_shell"],
       [name |-> "start_process_with_no_shell",
        plugin |-> "start_process_with_no_shell"],
       [name |-> "start_process_with_partial_path",
        plugin |-> "start_process_with_partial_path"] >>

\* extman.plugins_by_id.keys()
plugins_by_id_keys ==
    [i \in 1..Len(extman_plugins) |-> PluginAttrs[extman_plugins[i].plugin].test_id]

\* extman.get_plugin_id(name): the id of the plugin of that name, else None ("")
get_plugin_id(value) ==
    IF \E i \in 1..Len(extman_plugins) : extman_plugins[i].name = value
    THEN LET i == CHOOSE i \in 1..Len(extman_plugins) :
                      extman_plugins[i].name = value
         IN PluginAttrs[extman_plugins[i].plugin].test_id
    ELSE ""

\* extman.blacklist: the generic blacklist data, node type -> entries
extman_blacklist ==
    [n \in {"Call", "Import", "ImportFrom"} |->
        CASE n = "Call" ->
               << [id |-> "B301", name |-> "pickle", message |-> "{name}"],
                  [id |-> "B302", name |-> "marshal", message |-> "{name}"] >>
          [] n = "Import" ->
               << [id |-> "B401", name |-> "telnetlib", message |-> "{name}"] >>
          [] n = "ImportFrom" ->
               << [id |-> "B401", name |-> "telnetlib", message |-> "{name}"] >>]

\* iteration order of the node-type keys of a blacklist dict
NodeOrder == <<"Import", "ImportFrom", "Call">>

\* the ids of bandit's built in tests
builtins == <<"B001">>

-----------------------------------------------------------------------------
(* BanditTestSet._get_filter *)

\* variant: names are not converted
_get_id_identity(value) == value

\* Here we normalize on plugin IDs, by converting any names.
_get_id(value) ==
    IF get_plugin_id(value) # "" THEN get_plugin_id(value) ELSE value

\* the ids of all entries of extman.blacklist, in iteration order
RECURSIVE BlacklistIds(_)
BlacklistIds(k) ==
    IF k > Len(NodeOrder) THEN <<>>
    ELSE LET tests == IF NodeOrder[k] \in DOMAIN extman_blacklist
                      THEN extman_blacklist[NodeOrder[k]] ELSE <<>>
         IN [i \in 1..Len(tests) |-> tests[i].id] \o BlacklistIds(k + 1)

\* variant: exclude is applied only when include is empty
_get_filter_noexc(prof) ==
    LET inc == {_get_id(i) : i \in Range(OrEmptyList(prof.include))}
        exc == {_get_id(e) : e \in Range(OrEmptyList(prof.exclude))}
        filtered == IF inc # {} THEN inc
                    ELSE Range(plugins_by_id_keys \o builtins \o BlacklistIds(1))
    IN IF inc # {} THEN filtered ELSE {f \in filtered : f \notin exc}

_get_filter(prof) ==
    LET inc == {_get_id(i) : i \in Range(OrEmptyList(prof.include))}
        exc == {_get_id(e) : e \in Range(OrEmptyList(prof.exclude))}
        \* filtered = inc or list(plugins_by_id.keys()), extended with the
        \* builtins and the blacklist ids when inc is empty
        filtered == IF inc # {} THEN inc
                    ELSE Range(plugins_by_id_keys \o builtins \o BlacklistIds(1))
    IN {f \in filtered : f \notin exc}

-----------------------------------------------------------------------------
(* The configuration object *)

NoneSection == [kind |-> "None", haskey |-> FALSE, items |-> <<>>]

EmptySection == [kind |-> "dict", haskey |-> FALSE, items |-> <<>>]

\* {'bad_import_sets': items} or {'bad_name_sets': items}
LegacySection(items) == [kind |-> "dict", haskey |-> TRUE, items |-> items]

\* Python truth of a legacy section: None and {} are false
Truthy(section) == section.kind = "dict" /\ section.haskey

NoneOption ==
    [kind |-> "None", subprocess |-> <<>>, shell |-> <<>>, no_shell |-> <<>>]

EmptyOption ==
    [kind |-> "dict", subprocess |-> <<>>, shell |-> <<>>, no_shell |-> <<>>]

ShellOption ==
    [kind |-> "dict", subprocess |-> <<"subprocess.Popen">>,
     shell |-> <<"os.system">>, no_shell |-> <<"os.execl">>]

\* the value of a _config attribute that was never assigned
Unset == [kind |-> "unset", subprocess |-> <<>>, shell |-> <<>>, no_shell |-> <<>>]

\* config.get_setting(name): the legacy flat section, or None
get_setting(cfg, name) == cfg.settings[name]

\* config.get_option(name): the named section, or None
get_option(cfg, name) ==
    IF name \in DOMAIN cfg.options THEN cfg.options[name] ELSE NoneOption

\* str.replace(old, new) on a message whose only placeholder is modelled
Replace(message, old, new) == IF message = old THEN new ELSE message

-----------------------------------------------------------------------------
(* BanditTestSet._config_compat *)

\* blacklist.setdefault(key, []).extend(items)
SetDefaultExtend(dict, key, items) ==
    [n \in DOMAIN dict \cup {key} |->
        (IF n \in DOMAIN dict THEN dict[n] ELSE <<>>)
        \o (IF n = key THEN items ELSE <<>>)]

PatchItems(items, old) ==
    [i \in 1..Len(items) |->
        [items[i] EXCEPT !.message = Replace(items[i].message, old, "{name}")]]

\* if bl_imports: the imports go to Import, ImportFrom and Call
WithImports(blacklist, section, imports) ==
    IF Truthy(section)
    THEN SetDefaultExtend(
             SetDefaultExtend(
                 SetDefaultExtend(blacklist, "Import", imports),
                 "ImportFrom", imports),
             "Call", imports)
    ELSE blacklist

\* if bl_calls: the calls go to Call
WithCalls(blacklist, section, calls) ==
    IF Truthy(section) THEN SetDefaultExtend(blacklist, "Call", calls) ELSE blacklist

\* the message of every item of a section that is read is patched in place
Patched(section, old) ==
    IF Truthy(section)
    THEN [section EXCEPT !.items = PatchItems(section.items, old)]
    ELSE section

\* variant: the calls go to Import and ImportFrom as well
_config_compat_callsEverywhere(cfg) ==
    [blacklist |->
        WithImports(
            WithImports(EmptyDict, get_setting(cfg, "blacklist_imports"),
                Patched(get_setting(cfg, "blacklist_imports"), "{module}").items),
            get_setting(cfg, "blacklist_calls"),
            Patched(get_setting(cfg, "blacklist_calls"), "{func}").items),
     config |->
        [cfg EXCEPT
            !.settings.blacklist_imports = Patched(@, "{module}"),
            !.settings.blacklist_calls = Patched(@, "{func}")]]

\* returns the blacklist dict, and the config whose items it patched in place
_config_compat(cfg) ==
    [blacklist |->
        WithCalls(
            WithImports(EmptyDict, get_setting(cfg, "blacklist_imports"),
                Patched(get_setting(cfg, "blacklist_imports"), "{module}").items),
            get_setting(cfg, "blacklist_calls"),
            Patched(get_setting(cfg, "blacklist_calls"), "{func}").items),
     config |->
        [cfg EXCEPT
            !.settings.blacklist_imports = Patched(@, "{module}"),
            !.settings.blacklist_calls = Patched(@, "{func}")]]

-----------------------------------------------------------------------------
(* BanditTestSet._load_builtins *)

\* the blacklisting.blacklist function before any attribute is set on it
NoAttrs == [isset |-> FALSE, test_id |-> "", checks |-> {}, config |-> EmptyDict]

\* for node, tests in extman.blacklist: keep the tests whose id is filtered in
RECURSIVE FilterGeneric(_, _, _)
FilterGeneric(k, filt, blacklist) ==
    IF k > Len(NodeOrder) THEN blacklist
    ELSE LET node == NodeOrder[k]
             tests == IF node \in DOMAIN extman_blacklist
                      THEN extman_blacklist[node] ELSE <<>>
             values == SelectSeq(tests, LAMBDA t : t.id \in filt)
         IN FilterGeneric(k + 1, filt,
                IF values # <<>>
                THEN [n \in DOMAIN blacklist \cup {node} |->
                        IF n = node THEN values ELSE blacklist[n]]
                ELSE blacklist)

BlacklistWrapper == [name |-> "blacklist", plugin |-> "blacklist"]

\* setattr(blacklisting.blacklist, ...) and the Wrapper that is returned
DressedUp(blacklist, cfg) ==
    [results |-> <<BlacklistWrapper>>,
     attrs |-> [isset |-> TRUE, test_id |-> "B001",
                checks |-> DOMAIN blacklist, config |-> blacklist],
     config |-> cfg]

\* variant: the generic data is added to what the config gives
WithGeneric_merge(filt, compat) ==
    DressedUp(FilterGeneric(1, filt, compat.blacklist), compat.config)

\* if not blacklist: the generic data, else what the config overrides it with
WithGeneric(filt, compat) ==
    DressedUp(IF DOMAIN compat.blacklist = {}
              THEN FilterGeneric(1, filt, compat.blacklist)
              ELSE compat.blacklist,
              compat.config)

\* variant: the blacklist is dressed up whatever the filter
_load_builtins_always(filt, cfg, attrs) == WithGeneric(filt, _config_compat(cfg))

\* returns the wrappers, the attributes left on the blacklist singleton, and
\* the config as _config_compat left it
_load_builtins(filt, cfg, attrs) ==
    IF "B001" \in filt
    THEN WithGeneric(filt, _config_compat(cfg))
    ELSE [results |-> <<>>, attrs |-> attrs, config |-> cfg]

-----------------------------------------------------------------------------
(* BanditTestSet._load_tests *)

\* attributes of a plugin function: a registered plugin carries what its
\* decorators set, the blacklist singleton what _load_builtins set
TestId(p, attrs) == IF p = "blacklist" THEN attrs.test_id ELSE PluginAttrs[p].test_id

\* hasattr(plugin.plugin, '_takes_config')
HasTakesConfig(p) == p # "blacklist" /\ PluginAttrs[p].takes_config # ""

\* plugin.plugin._checks, as the sequence the for loop walks
Checks(p, attrs) ==
    IF p = "blacklist"
    THEN SelectSeq(NodeOrder, LAMBDA n : n \in attrs.checks)
    ELSE PluginAttrs[p].checks

\* for check in checks: self.tests.setdefault(check, []).append(plugin.plugin)
RECURSIVE AppendChecks(_, _, _, _)
AppendChecks(tests, checks, k, p) ==
    IF k > Len(checks) THEN tests
    ELSE AppendChecks(SetDefaultExtend(tests, checks[k], <<p>>), checks, k + 1, p)

\* the loop of _load_tests from plugin k on; exc names the exception raised
RECURSIVE LoadTestsFrom(_, _, _, _, _, _)
LoadTestsFrom(k, cfg, plugins, tests, pcfg, attrs) ==
    IF k > Len(plugins) THEN [tests |-> tests, pluginConfig |-> pcfg, exc |-> ""]
    ELSE LET p == plugins[k].plugin
             opt == IF HasTakesConfig(p)
                    THEN get_option(cfg, PluginAttrs[p].takes_config)
                    ELSE NoneOption
         IN IF HasTakesConfig(p) /\ opt.kind = "None"
                /\ ~ModuleHasGenConfig(PluginAttrs[p].module)
            THEN \* genner.gen_config: the module has no such attribute
                 [tests |-> tests, pluginConfig |-> pcfg, exc |-> "AttributeError"]
            ELSE LoadTestsFrom(k + 1, cfg, plugins,
                     AppendChecks(tests, Checks(p, attrs), 1, p),
                     IF HasTakesConfig(p) THEN [pcfg EXCEPT ![p] = opt] ELSE pcfg,
                     attrs)

\* variant: the plugins are walked twice
_load_tests_twice(cfg, plugins, pcfg, attrs) ==
    LET once == LoadTestsFrom(1, cfg, plugins, EmptyDict, pcfg, attrs)
    IN LoadTestsFrom(1, cfg, plugins, once.tests, pcfg, attrs)

_load_tests(cfg, plugins, pcfg, attrs) ==
    LoadTestsFrom(1, cfg, plugins, EmptyDict, pcfg, attrs)

-----------------------------------------------------------------------------
(* BanditTestSet.__init__ and get_tests *)

\* [p for p in extman.plugins if p.plugin._test_id in filtering]
Registered(filt) ==
    SelectSeq(extman_plugins, LAMBDA p : PluginAttrs[p.plugin].test_id \in filt)

\* variant: the builtins come before the registered plugins
SelfPlugins_builtinsFirst(registered, results) == results \o registered

\* self.plugins, after self.plugins.extend(self._load_builtins(...))
SelfPlugins(registered, results) == registered \o results

\* self.tests.get(checktype) or []
get_tests(self, checktype) ==
    IF checktype \in DOMAIN self.tests THEN self.tests[checktype] ELSE <<>>

-----------------------------------------------------------------------------
(* Inputs *)

\* what a profile of the filter law may list: a registered id, the name of
\* that plugin, the builtin id, a blacklist entry id, an unknown name
FilterEntries ==
    {"B502", "subprocess_popen_with_shell_equals_true", "B001", "B301", "nosuch"}

OptionalLists(S, n) == {Absent} \cup {Listed(s) : s \in SeqsUpTo(S, n)}

FilterProfiles ==
    [include : OptionalLists(FilterEntries, MaxInclude),
     exclude : OptionalLists(FilterEntries, MaxExclude)]

\* what a profile of a build may list
BuildEntries == {"B502", "B503", "B001", "B301"}

BuildProfiles ==
    [include : OptionalLists(BuildEntries, MaxInclude),
     exclude : OptionalLists(BuildEntries, MaxExclude)]

\* legacy import entries: one that duplicates a generic entry once its message
\* is patched, one the generic data does not have
LegacyImport == [id |-> "B401", name |-> "telnetlib", message |-> "{module}"]

LegacyImport2 == [id |-> "", name |-> "ftplib", message |-> "{module}"]

\* legacy call entries: one the generic data does not have, one that
\* duplicates a generic entry once its message is patched
LegacyCall == [id |-> "", name |-> "eval", message |-> "{func}"]

LegacyCall2 == [id |-> "B301", name |-> "pickle", message |-> "{func}"]

Configs ==
    [settings :
        [blacklist_imports : {NoneSection, EmptySection, LegacySection(<<>>),
                              LegacySection(<<LegacyImport>>),
                              LegacySection(<<LegacyImport2, LegacyImport>>)},
         blacklist_calls : {NoneSection, EmptySection, LegacySection(<<>>),
                            LegacySection(<<LegacyCall>>),
                            LegacySection(<<LegacyCall, LegacyCall2>>)}],
     options : [shell_injection : {NoneOption, EmptyOption, ShellOption}]]

\* the profiles and configs of a build that follows another build
RebuildProfiles ==
    { [include |-> Absent, exclude |-> Absent],
      [include |-> Listed(<<"B502", "B001">>), exclude |-> Absent],
      [include |-> Listed(<<"B503">>), exclude |-> Absent] }

RebuildConfigs ==
    { [settings |-> [blacklist_imports |-> NoneSection,
                     blacklist_calls |-> NoneSection],
       options |-> [shell_injection |-> ShellOption]],
      [settings |-> [blacklist_imports |-> NoneSection,
                     blacklist_calls |-> LegacySection(<<LegacyCall>>)],
       options |-> [shell_injection |-> EmptyOption]],
      [settings |-> [blacklist_imports |-> LegacySection(<<>>),
                     blacklist_calls |-> NoneSection],
       options |-> [shell_injection |-> NoneOption]] }

-----------------------------------------------------------------------------
(* The rule-set builder as a state machine *)

Init ==
    /\ profile \in BuildProfiles
    /\ config \in Configs
    /\ filtering = {}
    /\ sets = <<>>
    /\ pluginConfig = [p \in DOMAIN PluginAttrs |-> Unset]
    /\ blacklistAttrs = NoAttrs
    /\ outcome = "none"
    /\ builds = 0
    /\ exclude2 = Absent
    /\ filtering2 = {}
    /\ fdone = {}
    /\ QualIdle
    /\ ShellIdle
    /\ NameIdle
    /\ NsIdle

\* BanditTestSet(cfg, prof): the instance joins sets unless the constructor
\* raised; what the call did to the shared plugin objects stays either way
Construct(cfg, prof) ==
    \E filt \in {_get_filter(prof)} :
    \E lb \in {_load_builtins(filt, cfg, blacklistAttrs)} :
    \E plugins \in {SelfPlugins(Registered(filt), lb.results)} :
    \E lt \in {_load_tests(lb.config, plugins, pluginConfig, lb.attrs)} :
       /\ profile' = prof
       /\ config' = lb.config
       /\ filtering' = filt
       /\ sets' = IF lt.exc = ""
                  THEN Append(sets, [plugins |-> plugins, tests |-> lt.tests])
                  ELSE sets
       /\ pluginConfig' = lt.pluginConfig
       /\ blacklistAttrs' = lb.attrs
       /\ outcome' = IF lt.exc = "" THEN "ok" ELSE lt.exc
       /\ builds' = builds + 1
       /\ UNCHANGED <<exclude2, filtering2, fdone>>
       /\ UNCHANGED <<qualVars, shellVars, nameVars, nsVars>>

\* the first rule set of the run, from the config and profile of the run
Build ==
    /\ builds = 0
    /\ Construct(config, profile)

\* another rule set, with another config and profile
Rebuild ==
    /\ builds \in 1..(MaxBuilds - 1)
    /\ \E cfg \in RebuildConfigs, prof \in RebuildProfiles : Construct(cfg, prof)

Next == Build \/ Rebuild

Spec == Init /\ [][Next]_vars

-----------------------------------------------------------------------------
(* _get_filter as a function of the profile *)

InitFilter ==
    /\ profile \in FilterProfiles
    /\ exclude2 \in OptionalLists(FilterEntries, MaxExclude)
    /\ config = [settings |-> [blacklist_imports |-> NoneSection,
                               blacklist_calls |-> NoneSection],
                 options |-> [shell_injection |-> NoneOption]]
    /\ filtering = {}
    /\ filtering2 = {}
    /\ fdone = {}
    /\ sets = <<>>
    /\ pluginConfig = [p \in DOMAIN PluginAttrs |-> Unset]
    /\ blacklistAttrs = NoAttrs
    /\ outcome = "none"
    /\ builds = 0
    /\ QualIdle
    /\ ShellIdle
    /\ NameIdle
    /\ NsIdle

\* _get_filter(profile)
GetFilter ==
    /\ "E1" \notin fdone
    /\ filtering' = _get_filter(profile)
    /\ fdone' = fdone \cup {"E1"}
    /\ UNCHANGED <<profile, config, sets, pluginConfig, blacklistAttrs, outcome,
                   builds, exclude2, filtering2>>
    /\ UNCHANGED <<qualVars, shellVars, nameVars, nsVars>>

\* _get_filter of the same include with exclude2 added to the exclude list
GetFilterUnion ==
    /\ "E1E2" \notin fdone
    /\ filtering2' = _get_filter(
           [profile EXCEPT !.exclude =
               Listed(OrEmptyList(profile.exclude) \o OrEmptyList(exclude2))])
    /\ fdone' = fdone \cup {"E1E2"}
    /\ UNCHANGED <<profile, config, sets, pluginConfig, blacklistAttrs, outcome,
                   builds, exclude2, filtering>>
    /\ UNCHANGED <<qualVars, shellVars, nameVars, nsVars>>

NextFilter == GetFilter \/ GetFilterUnion

SpecFilter == InitFilter /\ [][NextFilter]_vars

-----------------------------------------------------------------------------
(* Properties of _get_filter *)

RegisteredIds == {PluginAttrs[f].test_id : f \in DOMAIN PluginAttrs}

GenericItems == UNION {Range(extman_blacklist[n]) : n \in DOMAIN extman_blacklist}

GenericIds == {t.id : t \in GenericItems}

\* a name known to the registry becomes its id, any other value is kept
NameToId(v) ==
    IF \E f \in DOMAIN PluginAttrs : f = v THEN PluginAttrs[v].test_id ELSE v

Normalized(opt) == {NameToId(v) : v \in Range(OrEmptyList(opt))}

\* C1: the active id set is (include - exclude) over normalized entries when
\* include is non-empty, and (registered ids + B001 + generic blacklist ids)
\* - exclude when include is empty or missing.
C1_ActiveSet ==
    "E1" \in fdone =>
        filtering =
            IF Normalized(profile.include) # {}
            THEN Normalized(profile.include) \ Normalized(profile.exclude)
            ELSE (RegisteredIds \cup {"B001"} \cup GenericIds)
                     \ Normalized(profile.exclude)

C1_Witness ==
    /\ "E1" \in fdone
    /\ profile.include = Listed(<<"subprocess_popen_with_shell_equals_true", "nosuch">>)
    /\ profile.exclude = Listed(<<"B502">>)
    /\ filtering = {"nosuch"}

\* C2 as stated: active(I, E1 + E2) = active(I, E1) - E2, E2 taken as listed.
C2_FilterCommutativity ==
    fdone = {"E1", "E1E2"} =>
        filtering2 = filtering \ Range(OrEmptyList(exclude2))

\* C2 amended: active(I, E1 + E2) = active(I, E1) minus the entries of E2
\* normalized to rule ids.
C2_FilterCommutativityNormalized ==
    fdone = {"E1", "E1E2"} =>
        filtering2 = filtering \ Normalized(exclude2)

C2_Witness ==
    /\ fdone = {"E1", "E1E2"}
    /\ exclude2 = Listed(<<"subprocess_popen_with_shell_equals_true">>)
    /\ "B502" \in filtering
    /\ "B502" \notin filtering2

-----------------------------------------------------------------------------
(* Properties of a built rule set *)

NodeKinds == {"Import", "ImportFrom", "Call", "Str"}

Latest == sets[Len(sets)]

HasBlacklistRule(plugins) ==
    \E i \in 1..Len(plugins) :
        plugins[i].plugin = "blacklist" /\ TestId("blacklist", blacklistAttrs) = "B001"

\* the entry table of the synthetic blacklist rule, per node type
Entries(n) ==
    IF n \in DOMAIN blacklistAttrs.config THEN blacklistAttrs.config[n] ELSE <<>>

\* C3: the plugin list of the built rule set holds the synthetic blacklist
\* rule iff B001 is in the active id set: with an empty include iff B001 is
\* not excluded, with a non-empty include iff B001 is in include - exclude.
C3_BlacklistRuleIffActive ==
    outcome = "ok" =>
        LET has == HasBlacklistRule(Latest.plugins)
            inc == Normalized(profile.include)
            exc == Normalized(profile.exclude)
        IN /\ has <=> "B001" \in filtering
           /\ inc = {} => (has <=> "B001" \notin exc)
           /\ inc # {} => (has <=> "B001" \in inc \ exc)

C3_Witness ==
    /\ outcome = "ok"
    /\ profile.include = Listed(<<"B301", "B001">>)
    /\ profile.exclude = Listed(<<"B502">>)
    /\ HasBlacklistRule(Latest.plugins)

LegacyItems(cfg) ==
    (IF Truthy(cfg.settings.blacklist_imports)
     THEN Range(cfg.settings.blacklist_imports.items) ELSE {})
    \cup (IF Truthy(cfg.settings.blacklist_calls)
          THEN Range(cfg.settings.blacklist_calls.items) ELSE {})

\* C4: when the legacy flat configuration is present and non-empty, the entry
\* table of the synthetic blacklist rule holds legacy entries only: no entry
\* of the generic blacklist data that is not itself a legacy entry is in it.
C4_LegacyPrecedence ==
    (outcome = "ok" /\ "B001" \in filtering /\ LegacyItems(config) # {}) =>
        \A n \in NodeKinds :
            /\ Range(Entries(n)) \subseteq LegacyItems(config)
            /\ \A e \in GenericItems \ LegacyItems(config) : e \notin Range(Entries(n))

C4_Witness ==
    /\ outcome = "ok"
    /\ {"B001", "B301", "B401"} \subseteq filtering
    /\ config.settings.blacklist_imports.items # <<>>
    /\ Entries("Import") = <<[id |-> "B401", name |-> "telnetlib", message |-> "{name}"]>>
    /\ Entries("Call") = Entries("Import")

LegacyAbsentOrEmpty(cfg) ==
    /\ cfg.settings.blacklist_imports.items = <<>>
    /\ cfg.settings.blacklist_calls.items = <<>>

\* C5: when B001 is active and each legacy section is missing or has an empty
\* entry list, the entry table is the generic blacklist data restricted, per
\* node type, to the entries whose id is in the active set.
C5_GenericWhenLegacyEmpty ==
    (outcome = "ok" /\ "B001" \in filtering /\ LegacyAbsentOrEmpty(config)) =>
        \A n \in NodeKinds :
            Entries(n) =
                IF n \in DOMAIN extman_blacklist
                THEN SelectSeq(extman_blacklist[n], LAMBDA t : t.id \in filtering)
                ELSE <<>>

\* C6: under legacy configuration every import-name entry is registered for
\* exactly Import, ImportFrom and Call, and every call-name entry for Call only.
C6_LegacyNodeKinds ==
    (outcome = "ok" /\ "B001" \in filtering /\ LegacyItems(config) # {}) =>
        LET imports == IF Truthy(config.settings.blacklist_imports)
                       THEN config.settings.blacklist_imports.items ELSE <<>>
            calls == IF Truthy(config.settings.blacklist_calls)
                     THEN config.settings.blacklist_calls.items ELSE <<>>
        IN /\ \A e \in Range(imports) :
                  {n \in NodeKinds : e \in Range(Entries(n))}
                      = {"Import", "ImportFrom", "Call"}
           /\ \A e \in Range(calls) \ Range(imports) :
                  {n \in NodeKinds : e \in Range(Entries(n))} = {"Call"}

C6_Witness ==
    /\ outcome = "ok"
    /\ "B001" \in filtering
    /\ Len(Entries("Import")) = 1
    /\ Len(Entries("ImportFrom")) = 1
    /\ Len(Entries("Call")) = 2
    /\ Entries("Call")[2].name = "eval"

\* the configuration attached to a rule: the _config of a registered plugin,
\* the entry table and node-type list of the synthetic blacklist rule
Attached(p, pcfg, attrs) ==
    IF p = "blacklist"
    THEN [config |-> NoneOption, table |-> attrs.config, checks |-> attrs.checks]
    ELSE [config |-> pcfg[p], table |-> EmptyDict, checks |-> {}]

\* C7: once a rule set is built, the configuration attached to each of its
\* rules never changes, whatever follows.
C7_ConfigImmutable ==
    [][\A i \in 1..Len(sets) : \A k \in 1..Len(sets[i].plugins) :
          Attached(sets[i].plugins[k].plugin, pluginConfig, blacklistAttrs)
          = Attached(sets[i].plugins[k].plugin, pluginConfig', blacklistAttrs')]_vars

\* C8: the config attached to every active rule that declares a config key is
\* the named section when it is present, even if empty, and the building of
\* the rule set does not fail because the section is absent.
C8_ConfigResolution ==
    builds > 0 =>
        /\ outcome = "ok"
        /\ \A k \in 1..Len(Latest.plugins) :
              LET p == Latest.plugins[k].plugin
              IN HasTakesConfig(p) =>
                    LET section == get_option(config, PluginAttrs[p].takes_config)
                    IN section.kind # "None" => pluginConfig[p] = section

\* position of a rule in the registry; the synthetic blacklist rule is not in it
Rank(p) ==
    IF p = "blacklist" THEN Len(extman_plugins) + 1
    ELSE CHOOSE i \in 1..Len(extman_plugins) : extman_plugins[i].plugin = p

\* C9: in the list of every node type the rules are in registration order,
\* whatever the order of the ids in the profile, the synthetic blacklist rule
\* after all registered rules.
C9_DispatchOrder ==
    \A i \in 1..Len(sets) : \A n \in DOMAIN sets[i].tests :
        \A a, b \in 1..Len(sets[i].tests[n]) :
            a < b => Rank(sets[i].tests[n][a]) <= Rank(sets[i].tests[n][b])

C9_Witness ==
    /\ outcome = "ok"
    /\ profile.include = Listed(<<"B503", "B502">>)
    /\ get_tests(Latest, "Call") = <<"subprocess_popen_with_shell_equals_true",
                                     "subprocess_without_shell_equals_true">>

\* C10: no rule occurs twice in the list of one node type, so get_tests(kind)
\* never yields a rule twice.
C10_OncePerNode ==
    \A i \in 1..Len(sets) : \A n \in NodeKinds :
        NoDuplicates(get_tests(sets[i], n))

C10_Witness ==
    /\ outcome = "ok"
    /\ Len(get_tests(Latest, "Call")) = Len(extman_plugins) + 1
    /\ Len(get_tests(Latest, "Import")) = 1
    /\ get_tests(Latest, "Str") = <<>>

-----------------------------------------------------------------------------
(* Paths and the file system (bandit/core/utils.py, os.path)               *)
(*                                                                         *)
(* A path string is modelled by its components: "/p/q/m.py" is             *)
(* [abs |-> TRUE, comps |-> <<"p", "q", "m.py">>, trail |-> FALSE], "" has *)
(* no component and "/" is the absolute path with no component; trail says *)
(* that the string ends in a separator after its last component.           *)

MaxComps == 3
MaxQname == 5

EmptyPath == [abs |-> FALSE, comps |-> <<>>, trail |-> FALSE]

RootPath == [abs |-> TRUE, comps |-> <<>>, trail |-> FALSE]

\* the tree: the directories /, /p and /p/q; /p/l is a symbolic link to /p/q
Dirs == {<<>>, <<"p">>, <<"p", "q">>}

LinkDir == <<"p">>

LinkName == "l"

LinkTarget == <<"p", "q">>

Comps == {"p", "q", "l", ".", "..", "m.py"}

Paths ==
    {r \in [abs : BOOLEAN, comps : SeqsUpTo(Comps, MaxComps), trail : BOOLEAN] :
        r.trail => r.comps # <<>>}

\* os.path.split(p): (head, tail), tail the part after the last separator
split(p) ==
    IF p.trail THEN [head |-> [p EXCEPT !.trail = FALSE], tail |-> ""]
    ELSE IF p.comps = <<>> THEN [head |-> p, tail |-> ""]
    ELSE [head |-> [abs |-> p.abs,
                    comps |-> SubSeq(p.comps, 1, Len(p.comps) - 1),
                    trail |-> FALSE],
          tail |-> p.comps[Len(p.comps)]]

\* os.path.splitext(name): (root, ext)
splitext(name) == IF name = "m.py" THEN <<"m", ".py">> ELSE <<name, "">>

\* os.path.join(p, name)
join(p, name) == [abs |-> p.abs, comps |-> Append(p.comps, name), trail |-> FALSE]

Parent(d) == IF d = <<>> THEN <<>> ELSE SubSeq(d, 1, Len(d) - 1)

\* the kernel's path walk that does not follow symbolic links
RECURSIVE Walk_nofollow(_, _)
Walk_nofollow(d, comps) ==
    IF comps = <<>> THEN [ok |-> TRUE, dir |-> d]
    ELSE IF Head(comps) = "." THEN Walk_nofollow(d, Tail(comps))
    ELSE IF Head(comps) = ".." THEN Walk_nofollow(Parent(d), Tail(comps))
    ELSE IF Append(d, Head(comps)) \in Dirs
         THEN Walk_nofollow(Append(d, Head(comps)), Tail(comps))
    ELSE [ok |-> FALSE, dir |-> <<>>]

\* the kernel's path walk from directory d: the directory comps leads to
RECURSIVE Walk(_, _)
Walk(d, comps) ==
    IF comps = <<>> THEN [ok |-> TRUE, dir |-> d]
    ELSE IF Head(comps) = "." THEN Walk(d, Tail(comps))
    ELSE IF Head(comps) = ".." THEN Walk(Parent(d), Tail(comps))
    ELSE IF Append(d, Head(comps)) \in Dirs
         THEN Walk(Append(d, Head(comps)), Tail(comps))
    ELSE IF d = LinkDir /\ Head(comps) = LinkName
         THEN Walk(LinkTarget, Tail(comps))
    ELSE [ok |-> FALSE, dir |-> <<>>]

\* os.path.isfile(p) for a p that names an __init__.py
isfile(p, wd, mk) ==
    /\ p.comps # <<>>
    /\ p.comps[Len(p.comps)] = "__init__.py"
    /\ \E w \in {Walk(IF p.abs THEN <<>> ELSE wd,
                      SubSeq(p.comps, 1, Len(p.comps) - 1))} :
          w.ok /\ w.dir \in mk

\* os.path.normpath on the components of an absolute path
RECURSIVE normcomps(_, _)
normcomps(comps, acc) ==
    IF comps = <<>> THEN acc
    ELSE IF Head(comps) = "." THEN normcomps(Tail(comps), acc)
    ELSE IF Head(comps) = ".." THEN normcomps(Tail(comps), Parent(acc))
    ELSE normcomps(Tail(comps), Append(acc, Head(comps)))

\* os.path.abspath(p) in working directory wd
abspath(p, wd) ==
    [abs |-> TRUE,
     comps |-> normcomps(IF p.abs THEN p.comps ELSE wd \o p.comps, <<>>),
     trail |-> FALSE]

\* '.'.join(names), the dots kept as entries of their own
RECURSIVE DotJoin(_)
DotJoin(names) ==
    IF Len(names) <= 1 THEN names
    ELSE <<Head(names), ".">> \o DotJoin(Tail(names))

-----------------------------------------------------------------------------
(* get_module_qualname_from_path, one loop iteration per step *)

Invalid_headOnly(h, t) == h = EmptyPath

\* if head == '' or tail == ''
Invalid(h, t) == h = EmptyPath \/ t = ""

\* qname.insert(0, tail)
insert(names, name) == <<name>> \o names

\* no rule set is being built
BuildIdle ==
    /\ profile = [include |-> Absent, exclude |-> Absent]
    /\ config = [settings |-> [blacklist_imports |-> NoneSection,
                               blacklist_calls |-> NoneSection],
                 options |-> [shell_injection |-> NoneOption]]
    /\ filtering = {}
    /\ sets = <<>>
    /\ pluginConfig = [p \in DOMAIN PluginAttrs |-> Unset]
    /\ blacklistAttrs = NoAttrs
    /\ outcome = "none"
    /\ builds = 0
    /\ exclude2 = Absent
    /\ filtering2 = {}
    /\ fdone = {}

InitQual ==
    /\ BuildIdle
    /\ ShellIdle
    /\ NameIdle
    /\ NsIdle
    /\ path \in Paths
    /\ cwd \in Dirs
    /\ markers \in SUBSET Dirs
    /\ head = EmptyPath
    /\ tail = ""
    /\ qname = <<>>
    /\ qpc = "call"
    /\ callno = 1
    /\ first = [kind |-> "none", name |-> <<>>,
                path |-> [abs |-> FALSE, comps |-> <<>>, trail |-> FALSE]]

\* the function up to its loop: split, the InvalidModulePath check, qname
Enter ==
    /\ qpc = "call"
    /\ \E s \in {split(path)} :
          /\ head' = s.head
          /\ tail' = s.tail
          /\ IF Invalid(s.head, s.tail)
             THEN qpc' = "raised" /\ qname' = <<>>
             ELSE qpc' = "loop" /\ qname' = <<splitext(s.tail)[1]>>
    /\ UNCHANGED <<path, cwd, markers, callno, first>>
    /\ UNCHANGED <<buildVars, shellVars, nameVars, nsVars>>

\* one test of the while condition: an iteration of the body, or the exit
\* and the return of '.'.join(qname)
Climb ==
    /\ qpc = "loop"
    /\ IF head # RootPath /\ isfile(join(head, "__init__.py"), cwd, markers)
       THEN /\ Len(qname) < MaxQname
            /\ \E s \in {split(head)} :
                  /\ head' = s.head
                  /\ tail' = s.tail
                  /\ qname' = insert(qname, s.tail)
            /\ qpc' = "loop"
       ELSE /\ qpc' = "done"
            /\ UNCHANGED <<head, tail, qname>>
    /\ UNCHANGED <<path, cwd, markers, callno, first>>
    /\ UNCHANGED <<buildVars, shellVars, nameVars, nsVars>>

\* the caller calls again, with the absolute form of the same path
CallAbsolute ==
    /\ callno = 1
    /\ qpc \in {"done", "raised"}
    /\ first' = [kind |-> qpc,
                 name |-> IF qpc = "done" THEN DotJoin(qname) ELSE <<>>,
                 path |-> path]
    /\ path' = abspath(path, cwd)
    /\ callno' = 2
    /\ qpc' = "call"
    /\ head' = EmptyPath
    /\ tail' = ""
    /\ qname' = <<>>
    /\ UNCHANGED <<cwd, markers>>
    /\ UNCHANGED <<buildVars, shellVars, nameVars, nsVars>>

NextQual == Enter \/ Climb \/ CallAbsolute

SpecQual == InitQual /\ [][NextQual]_vars

-----------------------------------------------------------------------------
(* Properties of get_module_qualname_from_path *)

\* the string the call returned
qualname == DotJoin(qname)

\* p is the path of a file m.py in a directory of the tree
ModuleFile(p) ==
    /\ ~p.trail
    /\ p.comps # <<>>
    /\ p.comps[Len(p.comps)] = "m.py"
    /\ Walk(IF p.abs THEN <<>> ELSE cwd, SubSeq(p.comps, 1, Len(p.comps) - 1)).ok

\* the components of the argument's absolute form: the file's directories
\* from the root down, then the file
Canon == abspath(path, cwd).comps

\* the directory named by the first k of them holds an __init__.py
Marked(k) ==
    isfile(join([abs |-> TRUE, comps |-> SubSeq(Canon, 1, k), trail |-> FALSE],
                "__init__.py"), cwd, markers)

\* k is how many directories the contiguous climb from the file's own
\* directory passes: each of them holds the marker, the next one up does not
\* (or no named directory is left)
ClimbsTo(k) ==
    /\ \A i \in 1..k : Marked(Len(Canon) - i)
    /\ k = Len(Canon) - 1 \/ ~Marked(Len(Canon) - k - 1)

\* C11: the name returned for a module file is the names of the directories
\* of the contiguous climb from the file's own directory (each holds
\* __init__.py, the first one without it ends the climb whatever lies further
\* up), joined by '.', then the base name without its extension
C11_ContiguousClimb ==
    (qpc = "done" /\ ModuleFile(path)) =>
        \E k \in 0..(Len(Canon) - 1) :
            /\ ClimbsTo(k)
            /\ qualname =
                 DotJoin(SubSeq(Canon, Len(Canon) - k, Len(Canon) - 1)
                         \o <<splitext(Canon[Len(Canon)])[1]>>)

\* the path string holds no separator: it has no directory component
NoDirectory == ~path.abs /\ ~path.trail /\ Len(path.comps) <= 1

\* the path string is empty or ends in a separator: it has no file name
NoFileName == path.trail \/ path.comps = <<>>

C13_RelativeSameAsAbsolute ==
    (/\ callno = 2
     /\ qpc = "done"
     /\ first.kind = "done"
     /\ ~first.path.abs
     /\ ModuleFile(first.path)) => qualname = first.name

\* the argument is the path of m.py in the directory /p/l, the link to /p/q
ThroughLink ==
    \/ path.abs /\ path.comps = LinkDir \o <<LinkName, "m.py">>
    \/ ~path.abs /\ cwd = LinkDir /\ path.comps = <<LinkName, "m.py">>

C26_ClimbTerminates ==
    [][(Climb /\ qpc' = "loop") => Len(head'.comps) < Len(head.comps)]_vars

-----------------------------------------------------------------------------
(* The process-spawning rules (bandit/plugins/injection_shell.py)          *)
(*                                                                         *)
(* A string literal is the sequence of its characters, the backquote       *)
(* written "backtick".  An argument node is [type, s, elts]: s the value   *)
(* of a Str, elts the elements of a List.                                  *)

MaxStr == 2

Chars == {"*", "?", "{", "[", "|", ";", "backtick", "$", "/", "\\", ".", "a"}

Strings == SeqsUpTo(Chars, MaxStr)

\* a list element: a string literal or a variable name
Elts == {[type |-> "Name", s |-> <<>>]} \cup {[type |-> "Str", s |-> s] : s \in Strings}

\* an argument: a string literal, a variable name or a list literal
ArgNodes ==
    {[type |-> e.type, s |-> e.s, elts |-> <<>>] : e \in Elts}
    \cup {[type |-> "List", s |-> <<>>, elts |-> l] :
             l \in {<<>>} \cup {<<e>> : e \in Elts}}

QualNames == {"subprocess.Popen", "os.system", "os.execl", "popen2.Popen3"}

\* a Call node: its qualified name, its positional arguments and what it
\* passes as the keyword shell
CallNodes ==
    [name : QualNames,
     args : {<<>>} \cup {<<a>> : a \in ArgNodes},
     shell : {"absent", "True", "False", "nonliteral"}]

ShellConfigs == {NoneOption, EmptyOption, ShellOption}

OptionTruthy_always(cfg) == TRUE

\* Python truth of a shell_injection config: None is false
OptionTruthy(cfg) == cfg.kind = "dict"

\* context.call_function_name_qual
call_function_name_qual(n) == n.name

\* context.call_args: the literal values of the positional arguments
call_args(n) ==
    [i \in 1..Len(n.args) |->
        IF n.args[i].type = "Str"
        THEN [literal |-> TRUE, value |-> n.args[i].s]
        ELSE [literal |-> FALSE, value |-> <<>>]]

\* context.check_call_arg_value(name, value)
check_call_arg_value(n, name, value) == name = "shell" /\ n.shell = value

NoIssue == [kind |-> "None", severity |-> "", confidence |-> ""]

\* bandit.Issue(severity=sev, confidence=conf, text=...)
Issue(sev, conf) == [kind |-> "Issue", severity |-> sev, confidence |-> conf]

Raised(exc) == [kind |-> exc, severity |-> "", confidence |-> ""]

Unrun == [kind |-> "unrun", severity |-> "", confidence |-> ""]

_has_special_characters_match(command) ==
    command # <<>> /\ command[1] \in {"{", "|", "[", ";", "$", "*", "?", "backtick"}

\* bool(re.search(pattern, command)), the pattern one character class
_has_special_characters(command) ==
    \E i \in 1..Len(command) :
        command[i] \in {"{", "|", "[", ";", "$", "*", "?", "backtick"}

_evaluate_shell_call(n) ==
    IF n.args[1].type = "Str"
    THEN IF ~_has_special_characters(call_args(n)[1].value)
         THEN "LOW" ELSE "MEDIUM"
    ELSE "HIGH"

\* the if / elif / else over sev that B502 and B505 share
IssueOfSeverity(sev) ==
    IF sev = "LOW" THEN Issue("LOW", "HIGH")
    ELSE IF sev = "MEDIUM" THEN Issue("MEDIUM", "HIGH")
    ELSE Issue("HIGH", "HIGH")

\* B502
subprocess_popen_with_shell_equals_true(n, cfg) ==
    IF /\ OptionTruthy(cfg)
       /\ call_function_name_qual(n) \in Range(cfg.subprocess)
       /\ check_call_arg_value(n, "shell", "True")
       /\ Len(call_args(n)) > 0
    THEN IssueOfSeverity(_evaluate_shell_call(n))
    ELSE NoIssue

\* B503
subprocess_without_shell_equals_true(n, cfg) ==
    IF /\ OptionTruthy(cfg)
       /\ call_function_name_qual(n) \in Range(cfg.subprocess)
       /\ ~check_call_arg_value(n, "shell", "True")
    THEN Issue("LOW", "HIGH")
    ELSE NoIssue

any_other_function_with_shell_equals_true_anyName(n, cfg) ==
    IF OptionTruthy(cfg) /\ check_call_arg_value(n, "shell", "True")
    THEN Issue("MEDIUM", "LOW")
    ELSE NoIssue

\* B504
any_other_function_with_shell_equals_true(n, cfg) ==
    IF /\ OptionTruthy(cfg)
       /\ call_function_name_qual(n) \notin Range(cfg.subprocess)
       /\ check_call_arg_value(n, "shell", "True")
    THEN Issue("MEDIUM", "LOW")
    ELSE NoIssue

\* B506
start_process_with_no_shell(n, cfg) ==
    IF /\ OptionTruthy(cfg)
       /\ call_function_name_qual(n) \in Range(cfg.no_shell)
    THEN Issue("LOW", "MEDIUM")
    ELSE NoIssue

\* B505
start_process_with_a_shell(n, cfg) ==
    IF /\ OptionTruthy(cfg)
       /\ call_function_name_qual(n) \in Range(cfg.shell)
       /\ Len(call_args(n)) > 0
    THEN IssueOfSeverity(_evaluate_shell_call(n))
    ELSE NoIssue

\* if isinstance(node, ast.Str) and node.s[0] not in delims
PartialPath(part) ==
    IF part.type = "Str"
    THEN IF part.s = <<>> THEN Raised("IndexError")
         ELSE IF part.s[1] \notin {"/", "\\", "."} THEN Issue("LOW", "HIGH")
         ELSE NoIssue
    ELSE NoIssue

\* node = context.node.args[0]; if it is a List, node = node.elts[0]
FirstPart(arg) ==
    IF arg.type = "List"
    THEN IF arg.elts = <<>> THEN Raised("IndexError")
         ELSE PartialPath(arg.elts[1])
    ELSE PartialPath([type |-> arg.type, s |-> arg.s])

\* B507
start_process_with_partial_path(n, cfg) ==
    IF /\ OptionTruthy(cfg)
       /\ Len(call_args(n)) # 0
       /\ \/ call_function_name_qual(n) \in Range(cfg.subprocess)
          \/ call_function_name_qual(n) \in Range(cfg.shell)
          \/ call_function_name_qual(n) \in Range(cfg.no_shell)
    THEN FirstPart(n.args[1])
    ELSE NoIssue

Rules == {"B502", "B503", "B504", "B505", "B506", "B507"}

InitShell ==
    /\ BuildIdle
    /\ QualIdle
    /\ NameIdle
    /\ NsIdle
    /\ callNode \in CallNodes
    /\ siConfig \in ShellConfigs
    /\ issues = [r \in Rules |-> Unrun]

\* the tests of the node's type are run in the order of the list
RunB502 ==
    /\ issues["B502"] = Unrun
    /\ issues' = [issues EXCEPT
           !["B502"] = subprocess_popen_with_shell_equals_true(callNode, siConfig)]
    /\ UNCHANGED <<callNode, siConfig>>
    /\ UNCHANGED <<buildVars, qualVars, nameVars, nsVars>>

RunB503 ==
    /\ issues["B502"] # Unrun
    /\ issues["B503"] = Unrun
    /\ issues' = [issues EXCEPT
           !["B503"] = subprocess_without_shell_equals_true(callNode, siConfig)]
    /\ UNCHANGED <<callNode, siConfig>>
    /\ UNCHANGED <<buildVars, qualVars, nameVars, nsVars>>

RunB504 ==
    /\ issues["B503"] # Unrun
    /\ issues["B504"] = Unrun
    /\ issues' = [issues EXCEPT
           !["B504"] = any_other_function_with_shell_equals_true(callNode, siConfig)]
    /\ UNCHANGED <<callNode, siConfig>>
    /\ UNCHANGED <<buildVars, qualVars, nameVars, nsVars>>

RunB505 ==
    /\ issues["B504"] # Unrun
    /\ issues["B505"] = Unrun
    /\ issues' = [issues EXCEPT
           !["B505"] = start_process_with_a_shell(callNode, siConfig)]
    /\ UNCHANGED <<callNode, siConfig>>
    /\ UNCHANGED <<buildVars, qualVars, nameVars, nsVars>>

RunB506 ==
    /\ issues["B505"] # Unrun
    /\ issues["B506"] = Unrun
    /\ issues' = [issues EXCEPT
           !["B506"] = start_process_with_no_shell(callNode, siConfig)]
    /\ UNCHANGED <<callNode, siConfig>>
    /\ UNCHANGED <<buildVars, qualVars, nameVars, nsVars>>

RunB507 ==
    /\ issues["B506"] # Unrun
    /\ issues["B507"] = Unrun
    /\ issues' = [issues EXCEPT
           !["B507"] = start_process_with_partial_path(callNode, siConfig)]
    /\ UNCHANGED <<callNode, siConfig>>
    /\ UNCHANGED <<buildVars, qualVars, nameVars, nsVars>>

NextShell == RunB502 \/ RunB503 \/ RunB504 \/ RunB505 \/ RunB506 \/ RunB507

SpecShell == InitShell /\ [][NextShell]_vars

-----------------------------------------------------------------------------
(* Properties of the process-spawning rules *)

\* the first positional argument is a string literal
FirstIsLiteral == callNode.args # <<>> /\ callNode.args[1].type = "Str"

\* the shell metacharacters * ? { [ | ; backtick $
Metacharacters == {"*", "?", "{", "[", "|", ";", "backtick", "$"}

\* the severity the escalation gives the node's first argument
Escalation ==
    IF ~FirstIsLiteral THEN "HIGH"
    ELSE IF Range(callNode.args[1].s) \cap Metacharacters # {} THEN "MEDIUM"
    ELSE "LOW"

Listed3 ==
    /\ OptionTruthy(siConfig)
    /\ callNode.name \in Range(siConfig.subprocess) \cup Range(siConfig.shell)
                         \cup Range(siConfig.no_shell)

\* C16: B502 returns an Issue for every call whose qualified name is in the
\* subprocess list and that passes shell=True, however the command is given
C16_ShellTrueAlwaysReported ==
    (/\ issues["B502"] # Unrun
     /\ OptionTruthy(siConfig)
     /\ callNode.name \in Range(siConfig.subprocess)
     /\ callNode.shell = "True") => issues["B502"].kind = "Issue"

\* what the partial-path heuristic looks at: the first argument, or its
\* first element when it is a list literal that has one
Examined ==
    IF callNode.args[1].type = "List"
    THEN IF callNode.args[1].elts = <<>>
         THEN [type |-> "Nothing", s |-> <<>>]
         ELSE callNode.args[1].elts[1]
    ELSE [type |-> callNode.args[1].type, s |-> callNode.args[1].s]

\* a string literal of any length that does not begin with '/', '\' or '.'
PartialLiteral(part) ==
    /\ part.type = "Str"
    /\ part.s = <<>> \/ part.s[1] \notin {"/", "\\", "."}

\* C17: for a call whose name is in one of the three lists and that has a
\* positional argument, B507 returns a LOW Issue exactly when what it looks
\* at is a string literal (the empty one included) that does not begin with
\* '/', '\' or '.'; in every other case it returns no finding
C17_PartialPath ==
    (/\ issues["B507"] # Unrun
     /\ Listed3
     /\ callNode.args # <<>>) =>
        IF PartialLiteral(Examined)
        THEN issues["B507"].kind = "Issue" /\ issues["B507"].severity = "LOW"
        ELSE issues["B507"] = NoIssue

\* C18: when the first argument is a list literal that is empty or whose
\* first element is not a string literal, B507 completes with no finding
C18_ListWithoutLiteral ==
    (/\ issues["B507"] # Unrun
     /\ Listed3
     /\ callNode.args # <<>>
     /\ callNode.args[1].type = "List"
     /\ Examined.type # "Str") => issues["B507"] = NoIssue

\* C23: with no shell_injection section (the config a rule is given is
\* None) none of B502 .. B507 returns an Issue, whatever the call node
C23_AbsentSectionDisables ==
    siConfig.kind = "None" =>
        \A r \in Rules : issues[r] = Unrun \/ issues[r] = NoIssue

\* all six rules ran without a config on subprocess.Popen("a", shell=True)
C23_Witness ==
    /\ siConfig.kind = "None"
    /\ \A r \in Rules : issues[r] = NoIssue
    /\ callNode = [name |-> "subprocess.Popen",
                   args |-> <<[type |-> "Str", s |-> <<"a">>, elts |-> <<>>]>>,
                   shell |-> "True"]

\* the names of the list or lists of the config that rule r consults
Consulted(r) ==
    IF r \in {"B502", "B503", "B504"} THEN siConfig.subprocess
    ELSE IF r = "B505" THEN siConfig.shell
    ELSE IF r = "B506" THEN siConfig.no_shell
    ELSE siConfig.subprocess \o siConfig.shell \o siConfig.no_shell

\* C24: a rule whose consulted list is empty returns no Issue, whatever the
\* qualified name of the call
C24_EmptyListNeverFires ==
    \A r \in Rules :
        (OptionTruthy(siConfig) /\ Consulted(r) = <<>>) =>
            issues[r].kind # "Issue"

\* C25: at most one of B502, B503 and B504 returns an Issue for a node
C25_NoDuplicateShellTrue ==
    Cardinality({r \in {"B502", "B503", "B504"} : issues[r].kind = "Issue"}) <= 1

\* the three ran on a listed call with shell=True and only B502 reported
C25_Witness ==
    /\ issues["B502"].kind = "Issue"
    /\ issues["B503"] = NoIssue
    /\ issues["B504"] = NoIssue
    /\ callNode.shell = "True"

-----------------------------------------------------------------------------
(* Qualified names (bandit/core/utils.py)                                  *)
(*                                                                         *)
(* An expression is its innermost node, base, and the attribute names      *)
(* applied to it in turn: a.b.c is base a, attrs <<"b", "c">>.  A string   *)
(* of the result is the sequence of its names and dots.                    *)

MaxChain == 2

Ids == {"a", "f"}

AttrNames == {"b", "c"}

AliasValues == {<<"pkg">>, <<"os", ".", "path">>}

Exprs ==
    [base : {[type |-> "Name", id |-> i] : i \in Ids}
            \cup {[type |-> "Call", id |-> ""], [type |-> "Subscript", id |-> ""]},
     attrs : SeqsUpTo(AttrNames, MaxChain)]

AliasTables == UNION {[S -> AliasValues] : S \in SUBSET Ids}

\* type(node)
TypeOf(e) == IF e.attrs # <<>> THEN "Attribute" ELSE e.base.type

\* node.value of an Attribute
ValueOf(e) == [e EXCEPT !.attrs = SubSeq(e.attrs, 1, Len(e.attrs) - 1)]

\* node.attr of an Attribute
AttrOf(e) == e.attrs[Len(e.attrs)]

\* aliases[id] if id in aliases, else id
Aliased(id, al) == IF id \in DOMAIN al THEN al[id] ELSE <<id>>

\* the prefix get_call_name computes for an Attribute with value v
CallPrefix(v, al) ==
    IF TypeOf(v) = "Name" THEN Aliased(v.base.id, al) \o <<".">> ELSE <<>>

get_call_name(e, al) ==
    IF TypeOf(e) = "Name" THEN Aliased(e.base.id, al)
    ELSE IF TypeOf(e) = "Attribute"
         THEN CallPrefix(ValueOf(e), al) \o <<AttrOf(e)>>
    ELSE <<>>

\* the prefix get_qual_attr computes: deepgetattr(node, 'value.id') raises
\* AttributeError for a value without id, and the except clause passes
QualPrefix(v, al) ==
    IF TypeOf(v) = "Name" THEN Aliased(v.base.id, al) ELSE <<>>

get_qual_attr(e, al) ==
    IF TypeOf(e) = "Attribute"
    THEN QualPrefix(ValueOf(e), al) \o <<".", AttrOf(e)>>
    ELSE <<>>

NotCalled == [kind |-> "unrun", value |-> <<>>]

Returned(v) == [kind |-> "value", value |-> v]

InitNames ==
    /\ BuildIdle
    /\ QualIdle
    /\ ShellIdle
    /\ NsIdle
    /\ func \in Exprs
    /\ aliases \in AliasTables
    /\ resolved = [fn \in {"get_call_name", "get_qual_attr"} |-> NotCalled]

\* get_call_name(node, aliases) for the Call node whose func is func
GetCallName ==
    /\ resolved["get_call_name"] = NotCalled
    /\ resolved' = [resolved EXCEPT
           !["get_call_name"] = Returned(get_call_name(func, aliases))]
    /\ UNCHANGED <<func, aliases>>
    /\ UNCHANGED <<buildVars, qualVars, shellVars, nsVars>>

\* get_qual_attr(func, aliases)
GetQualAttr ==
    /\ resolved["get_qual_attr"] = NotCalled
    /\ resolved' = [resolved EXCEPT
           !["get_qual_attr"] = Returned(get_qual_attr(func, aliases))]
    /\ UNCHANGED <<func, aliases>>
    /\ UNCHANGED <<buildVars, qualVars, shellVars, nsVars>>

NextNames == GetCallName \/ GetQualAttr

SpecNames == InitNames /\ [][NextNames]_vars

-----------------------------------------------------------------------------
(* Properties of the qualified names *)

\* the base of the target is a simple name
OnSimpleName == func.base.type = "Name"

\* the alias value of the base if it is an alias key, else the raw base
ResolvedBase ==
    IF func.base.id \in DOMAIN aliases
    THEN aliases[func.base.id] ELSE <<func.base.id>>

\* C19: get_call_name returns the resolved name for a simple name, the
\* resolved base, a dot and the attribute for an attribute of a simple name,
\* and the empty string for every other target shape; it never raises
C19_CallNameShapes ==
    resolved["get_call_name"] # NotCalled =>
        /\ resolved["get_call_name"].kind = "value"
        /\ resolved["get_call_name"].value =
             IF OnSimpleName /\ func.attrs = <<>> THEN ResolvedBase
             ELSE IF OnSimpleName /\ Len(func.attrs) = 1
                  THEN ResolvedBase \o <<".", func.attrs[1]>>
             ELSE <<>>

\* the attribute names of the chain, a dot before each
RECURSIVE Dotted(_)
Dotted(attrs) ==
    IF attrs = <<>> THEN <<>>
    ELSE <<".", Head(attrs)>> \o Dotted(Tail(attrs))

\* C20: for an attribute chain of any length on a simple name, the resolved
\* name is the resolved base followed by all the attribute names, joined by
\* dots (with a as pkg: a.b is pkg.b and a.b.c is pkg.b.c)
C20_ChainDepth ==
    \A fn \in {"get_call_name", "get_qual_attr"} :
        (/\ resolved[fn] # NotCalled
         /\ OnSimpleName
         /\ func.attrs # <<>>) =>
            resolved[fn].value = ResolvedBase \o Dotted(func.attrs)

\* C21: for an attribute node, get_qual_attr does not raise; on a simple
\* name it returns the resolved base, a dot and the attribute name, and on a
\* base that is not a simple name exactly the unqualified attribute name
C21_QualAttrDegrades ==
    (resolved["get_qual_attr"] # NotCalled /\ func.attrs # <<>>) =>
        /\ resolved["get_qual_attr"].kind = "value"
        /\ resolved["get_qual_attr"].value =
             IF OnSimpleName /\ Len(func.attrs) = 1
             THEN ResolvedBase \o <<".", func.attrs[1]>>
             ELSE <<func.attrs[Len(func.attrs)]>>

-----------------------------------------------------------------------------
(* Namespace paths (bandit/core/utils.py): a string is the sequence of its *)
(* names and dots, a tuple the sequence of its strings.                    *)

MaxNs == 3

NsTokens == {"x", "y", "."}

NsStrings == SeqsUpTo(NsTokens, MaxNs)

\* '{}.{}'.format(base, name)
namespace_path_join(base, name) == base \o <<".">> \o name

\* the index of the rightmost dot of str, 0 when it has none
LastDot(str) ==
    IF "." \in Range(str)
    THEN CHOOSE i \in 1..Len(str) :
             str[i] = "." /\ \A j \in (i + 1)..Len(str) : str[j] # "."
    ELSE 0

\* str.rsplit('.', 1) given the index of the rightmost dot
rsplit(str, d) ==
    IF d = 0 THEN <<str>>
    ELSE <<SubSeq(str, 1, d - 1), SubSeq(str, d + 1, Len(str))>>

\* tuple(path.rsplit('.', 1))
namespace_path_split(str) == rsplit(str, LastDot(str))

InitNamespace ==
    /\ BuildIdle
    /\ QualIdle
    /\ ShellIdle
    /\ NameIdle
    /\ nsBase \in NsStrings
    /\ nsName \in NsStrings
    /\ nsSplit = [done |-> FALSE, value |-> <<>>]
    /\ nsRound = [done |-> FALSE, value |-> <<>>]

\* namespace_path_split(nsBase)
Split ==
    /\ ~nsSplit.done
    /\ nsSplit' = [done |-> TRUE, value |-> namespace_path_split(nsBase)]
    /\ UNCHANGED <<nsBase, nsName, nsRound>>
    /\ UNCHANGED <<buildVars, qualVars, shellVars, nameVars>>

\* namespace_path_split(namespace_path_join(nsBase, nsName))
JoinSplit ==
    /\ ~nsRound.done
    /\ nsRound' = [done |-> TRUE,
                   value |-> namespace_path_split(
                                 namespace_path_join(nsBase, nsName))]
    /\ UNCHANGED <<nsBase, nsName, nsSplit>>
    /\ UNCHANGED <<buildVars, qualVars, shellVars, nameVars>>

NextNamespace == Split \/ JoinSplit

SpecNamespace == InitNamespace /\ [][NextNamespace]_vars

-----------------------------------------------------------------------------
(* Properties of the namespace paths *)

\* str is a namespace path: names with one dot between neighbours
NamespacePath(str) ==
    /\ str # <<>>
    /\ str[1] # "."
    /\ str[Len(str)] # "."
    /\ \A i \in 1..(Len(str) - 1) : ~(str[i] = "." /\ str[i + 1] = ".")

\* C22: namespace_path_split returns for every namespace path a pair whose
\* tail is the last component and whose head is everything before it; and
\* the split of namespace_path_join(base, name) is (base, name) for every
\* base and every dot-free name
C22_NamespaceSplit ==
    /\ (nsSplit.done /\ NamespacePath(nsBase)) =>
          /\ Len(nsSplit.value) = 2
          /\ "." \notin Range(nsSplit.value[2])
          /\ nsSplit.value[1] \o <<".">> \o nsSplit.value[2] = nsBase
    /\ (nsRound.done /\ "." \notin Range(nsName)) =>
          nsRound.value = <<nsBase, nsName>>

====
